---- MODULE Spec2Model ----
(***************************************************************************)
(* Mobility heatmap BFF: the aggregate store (AggregatesRepository), the   *)
(* loader (load_or_precomputed / _register_res), the forecast engine       *)
(* (generate_forecast and its cache) and the forecast cells route.         *)
(*                                                                         *)
(* Numbers are fixed point: counts are integers, "milli" values are        *)
(* thousandths (predicted, lower, upper, decay), quantiles are hundredths, *)
(* demand_index is in ten-thousandths.  Time is a tick counter; the UTC    *)
(* minute bucket of a tick t is t \div TicksPerMinute.                      *)
(***************************************************************************)
EXTENDS Integers, Sequences, FiniteSets, TLC

(* ------------------------------ bounds --------------------------------- *)
MaxTime == 2
MaxWrites == 2
MaxCached == 1
MaxHorizons == 2
MaxPoints == 2
MaxStream == 3

TicksPerMinute == 2

(* --------------------------- configuration ----------------------------- *)
supported_resolutions == <<7, 8, 9>>
suppress_k == 20
forecast_max_minutes == 720
\* forecast_decay_per_hour = 0.15, in thousandths per hour
forecast_decay_per_hour == 150
\* alpha = 0.7 (tenths), corridor_boost = 0.10 (hundredths),
\* corridor_tau_hours = 0.5 (half hours, i.e. 30 minutes)
alpha == 7
corridor_boost == 10
corridor_tau_minutes == 30

NoTime == 0 - 1

Resolutions == {supported_resolutions[i] : i \in 1..Len(supported_resolutions)}

(* ------------------------------ helpers -------------------------------- *)
Range(s) == {s[i] : i \in 1..Len(s)}

Min2(a, b) == IF a <= b THEN a ELSE b
Max2(a, b) == IF a >= b THEN a ELSE b

SetMin(S) == CHOOSE x \in S : \A y \in S : x <= y

RECURSIVE SortedSeq(_)
\* sorted(set(...)): the ascending sequence of the elements of a set
SortedSeq(S) ==
    IF S = {} THEN <<>>
    ELSE LET m == SetMin(S) IN <<m>> \o SortedSeq(S \ {m})

RECURSIVE SortedList(_)
\* sorted(list): ascending, duplicates kept (insertion of the head into the
\* sorted tail)
SortedList(s) ==
    IF s = <<>> THEN <<>>
    ELSE LET t == SortedList(Tail(s))
             lo == SelectSeq(t, LAMBDA x : x <= Head(s))
             hi == SelectSeq(t, LAMBDA x : x > Head(s))
         IN lo \o <<Head(s)>> \o hi

RECURSIVE SumSeq(_)
SumSeq(s) == IF s = <<>> THEN 0 ELSE Head(s) + SumSeq(Tail(s))

\* str(h) on an integer: a value of another type, one per integer
StrOf(h) == <<"str", h>>

\* f with key k bound to v (dict assignment d[k] = v)
Put(f, k, v) == [x \in DOMAIN f \cup {k} |-> IF x = k THEN v ELSE f[x]]

EmptyMap == [x \in {} |-> 0]


(* --------------------------- input domains ----------------------------- *)
Cells == {"a", "b", "c", "d"}
Locations == {"p", "q"}
TripIds == {"t1", "t2"}

Row(c, pc, ut) == [h3 |-> c, point_count |-> pc, unique_trips |-> ut]

\* per-resolution aggregate tables a precomputed artifact may carry
TableOne == <<Row("a", 100, 10)>>
TableThree == <<Row("a", 10, 10), Row("b", 50, 50), Row("c", 100, 100)>>
PrecomputedTables == {TableOne, TableThree}
\* a table of four cells, whose largest count lies between q80 and q95
TableFour ==
    <<Row("a", 10, 10), Row("b", 20, 20), Row("c", 30, 30), Row("d", 40, 40)>>
\* a table whose cell carries more unique trips than points
TableSkewed == <<Row("a", 3, 5)>>
\* the count that the CSV text inf is read as (float infinity), above every
\* count of the tables, and a table that holds it
Infinity == 1000000
TableInf == <<Row("a", Infinity, 10)>>

\* rows of a precomputed artifact: the table rows tagged with their resolution
TagRows(df, r) ==
    [i \in 1..Len(df) |->
        [h3 |-> df[i].h3, res |-> r, point_count |-> df[i].point_count,
         unique_trips |-> df[i].unique_trips]]

RECURSIVE FileOf(_, _)
FileOf(f, rs) ==
    IF rs = <<>> THEN <<>>
    ELSE TagRows(f[Head(rs)], Head(rs)) \o FileOf(f, Tail(rs))

\* a missing value of a row (NaN)
NaN == "NaN"

\* a row of the raw point stream; the bounded domain has one longitude, so
\* the latitude names the location
Point(id, lat, lng) == [randomized_id |-> id, lat |-> lat, lng |-> lng]
LatLng(lat, lng) == lat

\* the complete rows, and one row for each field that may be missing
Points ==
    {Point(id, loc, "g") : id \in TripIds, loc \in Locations}
        \cup {Point(NaN, "p", "g"), Point("t1", NaN, "g"), Point("t1", "p", NaN)}

\* the rows of the chunked streams: an id written as an integer at either
\* location, an id that is no number, and a row without id
StreamPoints ==
    {Point("7", "p", "g"), Point("7", "q", "g"), Point("t1", "p", "g"),
     Point(NaN, "p", "g")}

REQUIRED_COLUMNS == {"randomized_id", "lat", "lng", "alt", "spd", "azm"}

\* the headers of the raw streams: all the columns, the three position
\* columns without the telemetry, and a header without the longitude
ColumnSets ==
    {REQUIRED_COLUMNS,
     {"randomized_id", "lat", "lng"},
     {"randomized_id", "lat", "alt", "spd", "azm"}}

\* the raw point streams: a header and up to MaxPoints rows
RawFiles ==
    {[columns |-> c, rows |-> r] :
        c \in ColumnSets, r \in UNION {[1..n -> Points] : n \in 0..MaxPoints}}

(* ------------------------- hexagonal grid (h3) ------------------------- *)
\* h3.latlng_to_cell: the coarsest resolution holds both locations in one
\* cell, the finer ones separate them
latlng_to_cell(loc, res) ==
    IF res = supported_resolutions[1] THEN "a"
    ELSE IF loc = "p" THEN "a" ELSE "b"

\* h3.k_ring(cell, 1) by its contract: the cell and its immediate neighbours
k_ring(c) ==
    CASE c = "a" -> {"a", "b"}
      [] c = "b" -> {"a", "b", "c"}
      [] c = "c" -> {"b", "c", "d"}
      [] c = "d" -> {"c", "d"}
      [] OTHER -> {c}

(* ----------------------------- loader ---------------------------------- *)
\* pre.groupby("res"): the resolutions present, ascending, each with its rows
\* in file order
GroupBy(pre) ==
    LET keys == SortedSeq({pre[i].res : i \in 1..Len(pre)})
        grp(r) == SelectSeq(pre, LAMBDA row : row.res = r)
        strip(g) == [i \in 1..Len(g) |->
                        Row(g[i].h3, g[i].point_count, g[i].unique_trips)]
    IN [i \in 1..Len(keys) |-> <<keys[i], strip(grp(keys[i]))>>]

RECURSIVE Accumulate(_, _, _)
\* the accumulation loop for one resolution: accum is the sequence of
\* buckets [h3, points, ids] in order of first appearance
Accumulate(rows, res, accum) ==
    IF rows = <<>> THEN accum
    ELSE LET h == latlng_to_cell(LatLng(Head(rows).lat, Head(rows).lng), res)
             trip == Head(rows).randomized_id
             known == \E i \in 1..Len(accum) : accum[i].h3 = h
             next == IF known
                     THEN [i \in 1..Len(accum) |->
                            IF accum[i].h3 = h
                            THEN [h3 |-> h, points |-> accum[i].points + 1,
                                  ids |-> accum[i].ids \cup {trip}]
                            ELSE accum[i]]
                     ELSE Append(accum,
                                 [h3 |-> h, points |-> 1, ids |-> {trip}])
         IN Accumulate(Tail(rows), res, next)

\* finalisation of one resolution's accumulator into table rows
Finalize(accum) ==
    [i \in 1..Len(accum) |->
        Row(accum[i].h3, accum[i].points, Cardinality(accum[i].ids))]

\* _validate_columns: the required columns the header lacks
validate_columns(columns) == REQUIRED_COLUMNS \ columns

\* a dropna on the trip id alone
DropNaIdOnly(rows) == SelectSeq(rows, LAMBDA r : r.randomized_id # NaN)

\* chunk.dropna(subset=["randomized_id", "lat", "lng"])
DropNa(rows) ==
    SelectSeq(rows, LAMBDA r : r.randomized_id # NaN /\ r.lat # NaN
                               /\ r.lng # NaN)

RECURSIVE iter_chunks(_, _)
\* _iter_chunks: the stream in consecutive chunks of chunksize rows
iter_chunks(rows, chunksize) ==
    IF Len(rows) <= chunksize THEN (IF rows = <<>> THEN <<>> ELSE <<rows>>)
    ELSE <<SubSeq(rows, 1, chunksize)>>
             \o iter_chunks(SubSeq(rows, chunksize + 1, Len(rows)), chunksize)

\* chunk["randomized_id"].astype(str) on one id.  read_csv types the column
\* chunk by chunk: integers beside a missing value are read as floats, whose
\* text ends in ".0"; otherwise the text is that of the file
astype_str(id, column) ==
    IF NaN \in column /\ column \ {NaN} \subseteq {"7"} /\ id = "7"
    THEN "7.0"
    ELSE id

RECURSIVE AccumulateChunks(_, _, _)
\* the loop over the chunks, for one resolution: the rows of a chunk that
\* are left after the dropna are accumulated with their ids as texts
AccumulateChunks(chunks, res, accum) ==
    IF chunks = <<>> THEN accum
    ELSE LET chunk == Head(chunks)
             column == {chunk[j].randomized_id : j \in 1..Len(chunk)}
             kept == DropNa(chunk)
             read == [i \in 1..Len(kept) |->
                        [kept[i] EXCEPT
                            !.randomized_id = astype_str(@, column)]]
         IN AccumulateChunks(Tail(chunks), res, Accumulate(read, res, accum))

\* the raw path: one <<res, table>> per supported resolution, in order
RawGroups(rows) ==
    [i \in 1..Len(supported_resolutions) |->
        <<supported_resolutions[i],
          Finalize(Accumulate(rows, supported_resolutions[i], <<>>))>>]

\* int(df_res[...].sum()) raises OverflowError on an infinite sum
Overflows(df) ==
    \E i \in 1..Len(df) : Infinity \in {df[i].point_count, df[i].unique_trips}

\* _register_res builds the aggregate: the per-cell sums
ResolutionAggregate(res, df) ==
    [res |-> res, df |-> df,
     total_points |-> SumSeq([i \in 1..Len(df) |-> df[i].point_count]),
     total_trips |-> SumSeq([i \in 1..Len(df) |-> df[i].unique_trips])]

(* --------------------------- arithmetic -------------------------------- *)
ExpScale == 10000

RECURSIVE GCD(_, _)
GCD(a, b) == IF b = 0 THEN a ELSE GCD(b, a % b)

RECURSIVE ExpSeries(_, _, _, _)
\* sum of the series of e^(num/den) from the n-th term on, in 1/ExpScale
ExpSeries(term, num, den, n) ==
    IF term = 0 THEN 0
    ELSE term + ExpSeries((term * num) \div (den * n), num, den, n + 1)

\* math.exp(-(num/den)) for num, den > 0 or num = 0, in 1/ExpScale
ExpNeg(num, den) ==
    LET g == GCD(num, den)
    IN (ExpScale * ExpScale) \div ExpSeries(ExpScale, num \div g, den \div g, 1)

RECURSIVE SqrtBetween(_, _, _)
SqrtBetween(x, lo, hi) ==
    IF lo >= hi THEN lo
    ELSE LET mid == (lo + hi + 1) \div 2
         IN IF mid * mid <= x THEN SqrtBetween(x, mid, hi)
            ELSE SqrtBetween(x, lo, mid - 1)

\* math.sqrt of a value in thousandths, in thousandths
SqrtMilli(m) == SqrtBetween(m * 1000, 0, 46000)

(* ------------------------- forecast engine ----------------------------- *)
\* the interpolation of the exclusive method between data[j] and data[j + 1]
QuantileOfSorted(data, i, j) ==
    data[j] * (100 - (i * (Len(data) + 1) - j * 100))
        + data[j + 1] * (i * (Len(data) + 1) - j * 100)

\* the index of the exclusive method, clamped into 1..ld - 1
QuantileIndex(i, ld) == Max2(1, Min2(ld - 1, (i * (ld + 1)) \div 100))

\* statistics.quantiles(counts, n=100)[i-1], exclusive method, in hundredths
Quantile(counts, i) ==
    QuantileOfSorted(SortedList(counts), i, QuantileIndex(i, Len(counts)))

\* the density tiers of the counts, in hundredths: each falls back to the
\* tier below (q50 to 0) unless there are at least two counts
Q50(counts) == IF Len(counts) > 1 THEN Quantile(counts, 50) ELSE 0
Q80(counts) == IF Len(counts) > 1 THEN Quantile(counts, 80) ELSE Q50(counts)
Q95(counts) == IF Len(counts) > 1 THEN Quantile(counts, 95) ELSE Q80(counts)

\* the density tiers q50, q80, q95 of a table
Quantiles(df) ==
    [q50 |-> Q50([i \in 1..Len(df) |-> df[i].point_count]),
     q80 |-> Q80([i \in 1..Len(df) |-> df[i].point_count]),
     q95 |-> Q95([i \in 1..Len(df) |-> df[i].point_count])]

\* a variant of decay_for without the hub clamp
decay_for_unclamped(pc, h3cell, q, hubs) ==
    IF 100 * pc >= q.q95 THEN (forecast_decay_per_hour * 4) \div 10
    ELSE IF 100 * pc >= q.q80 THEN (forecast_decay_per_hour * 7) \div 10
    ELSE IF 100 * pc >= q.q50 THEN forecast_decay_per_hour
    ELSE (forecast_decay_per_hour * 13) \div 10

\* decay_for: the tier multiplier and the hub clamp, in thousandths per hour
decay_for(pc, h3cell, q, hubs) ==
    LET base_decay == forecast_decay_per_hour
        d == IF 100 * pc >= q.q95 THEN (base_decay * 4) \div 10
             ELSE IF 100 * pc >= q.q80 THEN (base_decay * 7) \div 10
             ELSE IF 100 * pc >= q.q50 THEN base_decay
             ELSE (base_decay * 13) \div 10
    IN IF h3cell \in hubs THEN Min2(d, (base_decay * 5) \div 10) ELSE d

\* a variant of the privacy flag that needs both counts below the threshold
SuppressedBoth(pc, ut) == (pc < suppress_k) /\ (ut < suppress_k)

\* the privacy flag of a row
Suppressed(pc, ut) == (pc < suppress_k) \/ (ut < suppress_k)

\* the first pass: one enriched row per table row
Enriched(df, q, hubs, corridors) ==
    LET cell_set == {df[i].h3 : i \in 1..Len(df)}
        first(n) == CHOOSE i \in 1..Len(df) :
                        /\ df[i].h3 = n
                        /\ \A j \in 1..Len(df) : df[j].h3 = n => i <= j
        neighs(c) == {n \in k_ring(c) : n \in cell_set /\ n # c}
        nsum(c) == SumSeq([i \in 1..Len(df) |->
                             IF df[i].h3 \in neighs(c) /\ i = first(df[i].h3)
                             THEN df[i].point_count ELSE 0])
        smoothed(c, pc) ==
            IF neighs(c) = {} THEN 1000 * pc
            ELSE alpha * 100 * pc
                 + ((10 - alpha) * 100 * nsum(c)) \div Cardinality(neighs(c))
    IN [i \in 1..Len(df) |->
          [h3 |-> df[i].h3,
           point_count |-> df[i].point_count,
           smoothed |-> smoothed(df[i].h3, df[i].point_count),
           unique_trips |-> df[i].unique_trips,
           decay |-> decay_for(df[i].point_count, df[i].h3, q, hubs),
           is_corridor |-> df[i].h3 \in corridors,
           is_hub |-> df[i].h3 \in hubs,
           suppressed |-> Suppressed(df[i].point_count, df[i].unique_trips)]]

\* _poisson_ci: the normal-approximation interval of a mean, in thousandths
poisson_ci(mean) ==
    IF mean <= 0 THEN <<0, 0>>
    ELSE LET sd == SqrtMilli(mean)
         IN <<Max2(0, mean - (196 * sd) \div 100), mean + (196 * sd) \div 100>>

\* a variant of the prediction that boosts a corridor cell at every horizon
PredictBoostAlways(row, h, q) ==
    LET base == (row.smoothed * ExpNeg(row.decay * h, 60000)) \div ExpScale
        predicted == IF row.is_corridor
                     THEN base + (((base * corridor_boost) \div 100)
                                   * ExpNeg(h, corridor_tau_minutes)) \div ExpScale
                     ELSE base
    IN [predicted |-> predicted, lower |-> predicted, upper |-> predicted]

\* the prediction of one enriched row at horizon h (minutes)
Predict(row, h, q) ==
    LET lam == row.decay
        base == (row.smoothed * ExpNeg(lam * h, 60000)) \div ExpScale
        boost == IF row.is_corridor /\ h <= corridor_tau_minutes
                 THEN (((base * corridor_boost) \div 100)
                        * ExpNeg(h, corridor_tau_minutes)) \div ExpScale
                 ELSE 0
        predicted == base + boost
        ci == poisson_ci(predicted)
        scale == IF 100 * row.point_count >= q.q95 THEN 8
                 ELSE IF 100 * row.point_count < q.q50 THEN 13
                 ELSE 10
        half_width == ((ci[2] - ci[1]) * scale) \div 20
    IN [predicted |-> predicted,
        lower |-> Max2(0, predicted - half_width),
        upper |-> predicted + half_width]

\* the blended demand-index denominator from the predicted values of one
\* horizon (in row order), in thousandths
DemandDenom(vals) ==
    LET sorted_vals == SortedList(vals)
        p95_idx == Max2(0, (95 * (Len(vals) - 1)) \div 100)
        p95 == sorted_vals[p95_idx + 1]
        mx == sorted_vals[Len(vals)]
        max_pred == IF mx > 0 THEN mx ELSE 0
        denom == ((IF max_pred = 0 THEN 1000 ELSE max_pred)
                  + (IF p95 = 0 THEN 1000 ELSE p95)) \div 2
    IN IF denom = 0 THEN 1000 ELSE denom

\* a variant of out_preds that stops before the first horizon is written
OutPredsPartial(cell_preds, demand_denoms) ==
    LET done == IF DOMAIN cell_preds = {} THEN {}
                ELSE DOMAIN cell_preds \ {SetMin(DOMAIN cell_preds)}
    IN [k \in {StrOf(h) : h \in done} |->
           LET d == cell_preds[k[2]]
           IN [predicted |-> d.predicted, lower |-> d.lower, upper |-> d.upper,
               demand_index |->
                   (d.predicted * 10000) \div demand_denoms[k[2]]]]

\* out_preds of one row: keyed by str(h), demand_index in ten-thousandths
OutPreds(cell_preds, demand_denoms) ==
    [k \in {StrOf(h) : h \in DOMAIN cell_preds} |->
        LET d == cell_preds[k[2]]
        IN [predicted |-> d.predicted, lower |-> d.lower, upper |-> d.upper,
            demand_index |-> (d.predicted * 10000) \div demand_denoms[k[2]]]]

\* cells_payload: one record per enriched row, in table order
CellsPayload(df, horizons, hubs, corridors) ==
    LET q == Quantiles(df)
        enriched == Enriched(df, q, hubs, corridors)
        preds_per_cell == [i \in 1..Len(enriched) |->
                             [h \in Range(horizons) |->
                                 Predict(enriched[i], h, q)]]
        demand_denoms == [h \in Range(horizons) |->
                             DemandDenom([i \in 1..Len(enriched) |->
                                             preds_per_cell[i][h].predicted])]
    IN [i \in 1..Len(enriched) |->
          [h3 |-> enriched[i].h3,
           current_count |-> enriched[i].point_count,
           unique_trips |-> enriched[i].unique_trips,
           suppressed |-> enriched[i].suppressed,
           is_hub |-> enriched[i].is_hub,
           is_corridor |-> enriched[i].is_corridor,
           decay |-> enriched[i].decay,
           predictions |-> OutPreds(preds_per_cell[i], demand_denoms)]]

\* the result of an empty table
EmptyPayload(res, horizons, t) ==
    [generated_at |-> t,
     res |-> res,
     horizons_minutes |-> horizons,
     forecast_version |-> "heuristic_v2",
     cells |-> <<>>]

\* the assembled result of a non-empty table
Payload(res, horizons, df, hubs, corridors, t) ==
    [generated_at |-> t,
     res |-> res,
     horizons_minutes |-> horizons,
     forecast_version |-> "heuristic_v2",
     decay_base |-> forecast_decay_per_hour,
     quantiles |-> Quantiles(df),
     alpha_smoothing |-> alpha,
     corridor_boost |-> corridor_boost,
     cells |-> CellsPayload(df, horizons, hubs, corridors),
     explanations |-> "single-snapshot heuristic"]

\* a variant of the key without the minute bucket
cache_key_no_minute(res, horizons, t, loadedAt) ==
    <<res, SortedList(horizons), 0, loadedAt, forecast_decay_per_hour>>

\* _cache_key: resolution, sorted horizons, minute bucket, snapshot identity
\* and configured decay
cache_key(res, horizons, t, loadedAt) ==
    <<res, SortedList(horizons), t \div TicksPerMinute, loadedAt,
      forecast_decay_per_hour>>

(* ------------------------ enrichment artifacts ------------------------- *)
\* a CSV file: whether it can be read, its header and its rows; the cluster
\* ids and the coordinates of a row are the texts of the file
CsvFile(columns, rows) ==
    [readable |-> TRUE, columns |-> columns, rows |-> rows]
Missing == [readable |-> FALSE, columns |-> {}, rows |-> <<>>]

\* a field that does not parse as a number
Bad == "bad"

\* float(r["lat_mean"]), float(r["lng_mean"]): the fields that parse
ParsesLatLng(v) == v \in Locations
\* int(r["cluster_id"]): the fields that parse, and their numbers
ParsesInt(v) == v \in {"1", "2", "3"}
IntOf(v) == CASE v = "1" -> 1 [] v = "2" -> 2 [] v = "3" -> 3

\* stop_clusters.csv: the file as built, one without the count column, and
\* one whose busiest cluster has a centroid that does not parse
StopClusterColumns == {"cluster_id", "lat_mean", "lng_mean", "count"}
StopClusters ==
    <<[cluster_id |-> "1", latlng |-> "q", count |-> 9],
      [cluster_id |-> "2", latlng |-> "p", count |-> 3]>>
StopClustersBadRow ==
    <<[cluster_id |-> "1", latlng |-> Bad, count |-> 9],
      [cluster_id |-> "2", latlng |-> "p", count |-> 3]>>

\* od_top.csv: the file as built, one without the trip_count column, and one
\* whose less travelled pair has a start cluster that does not parse
OdTopColumns == {"start_cluster", "end_cluster", "trip_count"}
OdTop ==
    <<[start_cluster |-> "1", end_cluster |-> "3", trip_count |-> 7]>>
OdTopBadRow ==
    <<[start_cluster |-> Bad, end_cluster |-> "1", trip_count |-> 5],
      [start_cluster |-> "2", end_cluster |-> "3", trip_count |-> 7]>>

GoodArtifacts ==
    [stop_clusters |-> CsvFile(StopClusterColumns, StopClusters),
     od_top |-> CsvFile(OdTopColumns, OdTop)]
NoArtifacts == [stop_clusters |-> Missing, od_top |-> Missing]
\* the directories of the runs: both files as built, both missing, both
\* without a column, and either file with a row that does not parse
ArtifactStates ==
    {GoodArtifacts,
     NoArtifacts,
     [stop_clusters |-> CsvFile(StopClusterColumns \ {"count"}, StopClusters),
      od_top |-> CsvFile(OdTopColumns \ {"trip_count"}, OdTop)],
     [GoodArtifacts EXCEPT
         !.stop_clusters = CsvFile(StopClusterColumns, StopClustersBadRow)],
     [GoodArtifacts EXCEPT !.od_top = CsvFile(OdTopColumns, OdTopBadRow)]}

(* ------------------------------- state --------------------------------- *)
VARIABLES
    mode,                  \* "precomputed" iff settings.precomputed_agg is set
    artifacts,             \* the enrichment files on disk
    now,                   \* the clock (datetime.utcnow), in ticks
    store,                 \* AggregatesRepository._store: res -> aggregate
    loaded_at,             \* AggregatesRepository.loaded_at, NoTime for None
    forecast_cache,        \* _forecast_cache: key -> payload
    hub_cells_cache,       \* _hub_cells_cache: res -> set of cells
    corridor_cells_cache,  \* _corridor_cells_cache: res -> set of cells
    pending,               \* the load in progress: <<res, table>> to register
    ret,                   \* the response being returned to a caller, or Idle
    writes,                \* number of loads and direct registrations started
    last_load,             \* history: res -> table produced by the latest load
    last_rows,             \* history: rows, complete rows of the latest input
    before,                \* history: the store when the load began, until answered
    origin,                \* history: res -> who registered it last, and what
    gen,                   \* history: res -> data-changing replacements by loads
    provenance,            \* history: cache key -> table and gen it came from
    calls                  \* generate_forecast calls in progress, by caller

vars == <<mode, artifacts, now, store, loaded_at, forecast_cache,
          hub_cells_cache, corridor_cells_cache, pending, ret, writes,
          last_load, last_rows, before, origin, gen, provenance, calls>>

\* the callers that may be inside generate_forecast at the same time
Callers == {"c1", "c2"}

NoValue == [none |-> TRUE]

\* the outcome record of an operation that is not a forecast
PlainRet(op, status) ==
    [op |-> op, status |-> status, res |-> 0, horizons |-> <<>>,
     minute |-> 0, value |-> NoValue, hit |-> FALSE, stale |-> FALSE,
     loaded |-> FALSE, from_df |-> <<>>, repeat |-> FALSE, same |-> FALSE]

\* no response in flight
Idle == PlainRet("idle", "ok")

Init ==
    /\ mode \in {"raw", "precomputed"}
    /\ artifacts \in ArtifactStates
    /\ now = 0
    /\ store = EmptyMap
    /\ loaded_at = NoTime
    /\ forecast_cache = EmptyMap
    /\ hub_cells_cache = EmptyMap
    /\ corridor_cells_cache = EmptyMap
    /\ pending = <<>>
    /\ ret = Idle
    /\ writes = 0
    /\ last_load = EmptyMap
    /\ last_rows = [rows |-> 0, complete |-> 0]
    /\ before = EmptyMap
    /\ origin = EmptyMap
    /\ gen = [r \in Resolutions |-> 0]
    /\ provenance = EmptyMap
    /\ calls = [w \in Callers |->
                   [pc |-> "idle", status |-> "ok", key |-> <<>>,
                    value |-> NoValue, hit |-> FALSE, from_df |-> <<>>]]

(* --------------------------- the clock --------------------------------- *)
Tick ==
    /\ now < MaxTime
    /\ now' = now + 1
    /\ UNCHANGED <<mode, calls, artifacts, store, loaded_at, forecast_cache,
                   hub_cells_cache, corridor_cells_cache, pending, ret,
                   writes, last_load, last_rows, before, origin, gen, provenance>>

\* the response reaches the caller
Return ==
    /\ ret # Idle
    /\ ret' = Idle
    /\ before' = IF ret.op \in {"load", "admin_reload"} THEN EmptyMap
                  ELSE before
    /\ UNCHANGED <<mode, calls, artifacts, now, store, loaded_at, forecast_cache,
                   hub_cells_cache, corridor_cells_cache, pending, writes,
                   last_load, last_rows, origin, gen, provenance>>

(* ------------------------- aggregate store ----------------------------- *)
\* a registration that replaces the whole store by the one aggregate
set_resolution_alone(agg) == [x \in {agg.res} |-> agg]

\* AggregatesRepository.set_resolution: the store and loaded_at after it
set_resolution_store(agg) == Put(store, agg.res, agg)
set_resolution_loaded_at == IF loaded_at = NoTime THEN now ELSE loaded_at

\* a direct registration (the repository's own operation)
SetResolution(res, df) ==
    /\ pending = <<>>
    /\ ret = Idle
    /\ writes < MaxWrites
    /\ writes' = writes + 1
    /\ store' = set_resolution_store(ResolutionAggregate(res, df))
    /\ loaded_at' = set_resolution_loaded_at
    /\ ret' = PlainRet("set_resolution", "ok")
    /\ origin' = Put(origin, res, [by |-> "direct", df |-> df])
    /\ UNCHANGED <<mode, calls, artifacts, now, forecast_cache, hub_cells_cache,
                   corridor_cells_cache, pending, last_load, last_rows, before, gen,
                   provenance>>

\* a lookup that answers a resolution not in the store with an empty aggregate
get_resolution_or_empty(res) ==
    IF res \in DOMAIN store THEN [status |-> "ok", agg |-> store[res]]
    ELSE [status |-> "ok", agg |-> ResolutionAggregate(res, <<>>)]

\* AggregatesRepository.get_resolution: the aggregate, or KeyError
get_resolution(res) ==
    IF res \notin DOMAIN store THEN [status |-> "KeyError", agg |-> NoValue]
    ELSE [status |-> "ok", agg |-> store[res]]

\* a caller reads one resolution
GetResolution(res) ==
    /\ pending = <<>>
    /\ ret = Idle
    /\ ret' = [PlainRet("get_resolution", get_resolution(res).status) EXCEPT
                  !.res = res, !.value = get_resolution(res).agg]
    /\ UNCHANGED <<mode, calls, artifacts, now, store, loaded_at, forecast_cache,
                   hub_cells_cache, corridor_cells_cache, pending, writes,
                   last_load, last_rows, before, origin, gen, provenance>>

(* ------------------------------ loading -------------------------------- *)
\* load_or_precomputed up to its first registration: the tables it is about
\* to register, in order
LoadStart(groups, rows, complete_rows) ==
    /\ pending = <<>>
    /\ ret = Idle
    /\ writes < MaxWrites
    /\ writes' = writes + 1
    /\ pending' = groups
    /\ last_load' = [r \in {groups[i][1] : i \in 1..Len(groups)} |->
                       (CHOOSE g \in Range(groups) : g[1] = r)[2]]
    /\ last_rows' = [rows |-> rows, complete |-> complete_rows]
    /\ before' = store
    /\ UNCHANGED <<mode, calls, artifacts, now, store, loaded_at, forecast_cache,
                   hub_cells_cache, corridor_cells_cache, ret, origin, gen,
                   provenance>>

LoadPrecomputed(pre) ==
    /\ mode = "precomputed"
    /\ LoadStart(GroupBy(pre), Len(pre), Len(pre))

\* the raw path: a stream with rows is read as one chunk, whose header is
\* validated first (ValueError naming the missing columns); a stream without
\* rows yields no chunk.  No bounding box is configured (astana_bbox = None).
LoadRaw(file) ==
    /\ mode = "raw"
    /\ IF file.rows # <<>> /\ validate_columns(file.columns) # {}
       THEN /\ pending = <<>>
            /\ ret = Idle
            /\ writes < MaxWrites
            /\ writes' = writes + 1
            /\ ret' = [PlainRet("load", "ValueError") EXCEPT
                          !.value = [missing |->
                                        validate_columns(file.columns)]]
            /\ last_load' = EmptyMap
            /\ last_rows' = [rows |-> Len(file.rows), complete |-> 0]
            /\ before' = store
            /\ UNCHANGED <<mode, calls, artifacts, now, store, loaded_at,
                           forecast_cache, hub_cells_cache,
                           corridor_cells_cache, pending, origin, gen,
                           provenance>>
       ELSE LoadStart(RawGroups(DropNa(file.rows)), Len(file.rows),
                      Cardinality({i \in 1..Len(file.rows) :
                          /\ file.rows[i].randomized_id # NaN
                          /\ file.rows[i].lat # NaN
                          /\ file.rows[i].lng # NaN}))

\* _register_res of the next table of the load in progress; a table without
\* rows has no point_count column and ends the load with a KeyError, a table
\* with an infinite count ends it with an OverflowError
RegisterRes ==
    /\ pending # <<>>
    /\ LET res == Head(pending)[1]
           df == Head(pending)[2]
           changed == res \in DOMAIN store /\ store[res].df # df
       IN IF df = <<>>
          THEN /\ pending' = <<>>
               /\ ret' = PlainRet("load", "KeyError")
               /\ UNCHANGED <<store, loaded_at, origin, gen>>
          ELSE IF Overflows(df)
          THEN /\ pending' = <<>>
               /\ ret' = [PlainRet("load", "OverflowError") EXCEPT !.res = res]
               /\ UNCHANGED <<store, loaded_at, origin, gen>>
          ELSE /\ store' = set_resolution_store(ResolutionAggregate(res, df))
               /\ loaded_at' = set_resolution_loaded_at
               /\ origin' = Put(origin, res, [by |-> "load", df |-> df])
               /\ gen' = IF changed THEN [gen EXCEPT ![res] = @ + 1] ELSE gen
               /\ pending' = Tail(pending)
               /\ ret' = IF Tail(pending) = <<>> THEN PlainRet("load", "ok")
                         ELSE ret
    /\ UNCHANGED <<mode, calls, artifacts, now, forecast_cache, hub_cells_cache,
                   corridor_cells_cache, writes, last_load, last_rows, before,
                   provenance>>

\* a variant of the handler that reports a failed load as a success
admin_reload_swallow(load_status) ==
    [status |-> "reloaded", detail |-> load_status]

\* admin_reload after its call of load_or_precomputed: a failure of the load
\* is answered with HTTP 500 "Reload failed"; after a load that completed,
\* optional_artifacts.reload is not defined and the AttributeError is
\* answered the same way
admin_reload(load_status) ==
    IF load_status = "ok"
    THEN [status |-> "HTTP 500", detail |-> "AttributeError"]
    ELSE [status |-> "HTTP 500", detail |-> load_status]

\* the load that ended was the one of admin_reload: the handler answers
AdminReload ==
    /\ pending = <<>>
    /\ ret.op = "load"
    /\ ret' = [PlainRet("admin_reload", admin_reload(ret.status).status) EXCEPT
                  !.res = ret.res,
                  !.value = [detail |-> admin_reload(ret.status).detail]]
    /\ UNCHANGED <<mode, calls, artifacts, now, store, loaded_at, forecast_cache,
                   hub_cells_cache, corridor_cells_cache, pending, writes,
                   last_load, last_rows, before, origin, gen, provenance>>

\* the accumulation of a stream read in a given row order and chunk size,
\* beside that of the same rows read in one chunk: for each resolution the
\* buckets by cell
AggregateRaw(rows, order, chunksize) ==
    /\ ret = Idle
    /\ LET buckets(accum) ==
               [c \in {accum[i].h3 : i \in 1..Len(accum)} |->
                   LET b == CHOOSE i \in 1..Len(accum) : accum[i].h3 = c
                   IN [points |-> accum[b].points, ids |-> accum[b].ids]]
           chunks == iter_chunks([i \in 1..Len(rows) |-> rows[order[i]]],
                                 chunksize)
       IN ret' = [PlainRet("aggregate", "ok") EXCEPT
                     !.value =
                         [rows |-> rows, order |-> order,
                          chunksize |-> chunksize,
                          retained |-> Len(DropNa(rows)),
                          chunked |->
                              [r \in Resolutions |->
                                  buckets(AccumulateChunks(chunks, r, <<>>))],
                          one_pass |->
                              [r \in Resolutions |->
                                  buckets(AccumulateChunks(<<rows>>, r,
                                                           <<>>))]]]
    /\ UNCHANGED <<mode, calls, artifacts, now, store, loaded_at, forecast_cache,
                   hub_cells_cache, corridor_cells_cache, pending, writes,
                   last_load, last_rows, before, origin, gen, provenance>>

(* -------------------------- enrichment sets ---------------------------- *)
\* a variant that does not sort by the count column
read_hubs_unsorted(res) ==
    IF ~artifacts.stop_clusters.readable THEN {}
    ELSE {latlng_to_cell(artifacts.stop_clusters.rows[i].latlng, res) :
             i \in {j \in 1..Len(artifacts.stop_clusters.rows) :
                       ParsesLatLng(artifacts.stop_clusters.rows[j].latlng)}}

\* _load_hubs reading stop_clusters.csv: the cells of the clusters whose
\* centroid parses; empty when the file or its count column is missing (the
\* caps of 50 hubs and 100 pairs are above the sizes of the files here)
read_hubs(res) ==
    IF \/ ~artifacts.stop_clusters.readable
       \/ "count" \notin artifacts.stop_clusters.columns
       \/ ~({"lat_mean", "lng_mean"} \subseteq artifacts.stop_clusters.columns)
    THEN {}
    ELSE {latlng_to_cell(artifacts.stop_clusters.rows[i].latlng, res) :
             i \in {j \in 1..Len(artifacts.stop_clusters.rows) :
                       ParsesLatLng(artifacts.stop_clusters.rows[j].latlng)}}

\* a variant that reads the file on every call
load_hubs_uncached(res) == read_hubs(res)

\* _load_hubs: the cached set, or the set read from the file
load_hubs(res) ==
    IF res \in DOMAIN hub_cells_cache THEN hub_cells_cache[res]
    ELSE read_hubs(res)

RECURSIVE SortByTripCount(_)
\* df.sort_values("trip_count", ascending=False)
SortByTripCount(rows) ==
    IF rows = <<>> THEN <<>>
    ELSE LET m == CHOOSE i \in 1..Len(rows) :
                      \A j \in 1..Len(rows) :
                          rows[j].trip_count <= rows[i].trip_count
         IN <<rows[m]>>
              \o SortByTripCount([k \in 1..(Len(rows) - 1) |->
                                     IF k < m THEN rows[k] ELSE rows[k + 1]])

\* the cluster fields in the order the loop visits them: start, end per row
ClusterFields(rows) ==
    [k \in 1..(2 * Len(rows)) |->
        IF k % 2 = 1 THEN rows[(k + 1) \div 2].start_cluster
        ELSE rows[k \div 2].end_cluster]

\* cluster_map[cid]: the centroid of the last row with that cluster id
Centroid(sc_rows, cid) ==
    sc_rows[CHOOSE i \in 1..Len(sc_rows) :
               /\ IntOf(sc_rows[i].cluster_id) = cid
               /\ \A j \in 1..Len(sc_rows) :
                     IntOf(sc_rows[j].cluster_id) = cid => j <= i].latlng

RECURSIVE CorridorWalk(_, _, _, _)
\* the loop over the pairs: a cluster field that does not parse ends it with
\* the cells added so far
CorridorWalk(fields, sc_rows, res, cells) ==
    IF fields = <<>> THEN cells
    ELSE IF ~ParsesInt(Head(fields)) THEN cells
    ELSE IF \E i \in 1..Len(sc_rows) :
                IntOf(sc_rows[i].cluster_id) = IntOf(Head(fields))
    THEN CorridorWalk(Tail(fields), sc_rows, res,
             cells \cup {latlng_to_cell(
                             Centroid(sc_rows, IntOf(Head(fields))), res)})
    ELSE CorridorWalk(Tail(fields), sc_rows, res, cells)

\* _load_corridor_cells reading od_top.csv and stop_clusters.csv: empty when
\* a file or a column is missing or a row of the stop clusters does not parse
read_corridor_cells(res) ==
    IF \/ ~artifacts.od_top.readable
       \/ ~(OdTopColumns \subseteq artifacts.od_top.columns)
       \/ ~artifacts.stop_clusters.readable
       \/ ~({"cluster_id", "lat_mean", "lng_mean"}
               \subseteq artifacts.stop_clusters.columns)
       \/ \E i \in 1..Len(artifacts.stop_clusters.rows) :
             \/ ~ParsesInt(artifacts.stop_clusters.rows[i].cluster_id)
             \/ ~ParsesLatLng(artifacts.stop_clusters.rows[i].latlng)
    THEN {}
    ELSE CorridorWalk(ClusterFields(SortByTripCount(artifacts.od_top.rows)),
                      artifacts.stop_clusters.rows, res, {})

\* _load_corridor_cells: the cached set, or the set read from the files
load_corridor_cells(res) ==
    IF res \in DOMAIN corridor_cells_cache THEN corridor_cells_cache[res]
    ELSE read_corridor_cells(res)

(* --------------------------- generate_forecast ------------------------- *)
\* a variant of the normalisation that sorts without removing duplicates
NormalizeHorizonsSortOnly(horizons) == SortedList(horizons)

\* horizons = sorted(set(int(h) for h in horizons))
NormalizeHorizons(horizons) == SortedSeq(Range(horizons))

\* a variant of the validation that lets a horizon of zero minutes through
InvalidHorizonBelowZero(h) == h < 0 \/ h > forecast_max_minutes

\* the validation of one horizon
InvalidHorizon(h) == h < 1 \/ h > forecast_max_minutes

\* a dict assignment that drops the other keys
PutAlone(f, k, v) == [x \in {k} |-> v]

\* _forecast_cache[key] = payload
CachePut(cache, key, payload) == Put(cache, key, payload)

\* which return of generate_forecast(res, horizons_in) a call at `now` takes
ForecastPath(res, horizons_in) ==
    LET horizons == NormalizeHorizons(horizons_in)
    IN IF \E i \in 1..Len(horizons) : InvalidHorizon(horizons[i])
       THEN "ValueError"
       ELSE IF cache_key(res, horizons, now, loaded_at)
                   \in DOMAIN forecast_cache
       THEN "cached"
       ELSE IF res \notin DOMAIN store THEN "KeyError"
       ELSE IF store[res].df = <<>> THEN "empty"
       ELSE "computed"

\* a variant that loads the hubs before it looks the resolution up
ForecastHubsFirst(res, horizons_in) ==
    [status |-> IF ForecastPath(res, horizons_in) \in {"ValueError", "KeyError"}
                THEN ForecastPath(res, horizons_in) ELSE "ok",
     value |-> NoValue, hit |-> FALSE, cache |-> forecast_cache,
     hubs |-> IF ForecastPath(res, horizons_in) = "ValueError"
              THEN hub_cells_cache
              ELSE Put(hub_cells_cache, res, load_hubs(res)),
     corridors |-> corridor_cells_cache,
     key |-> cache_key(res, NormalizeHorizons(horizons_in), now, loaded_at),
     inserted |-> FALSE]

\* the outcome of generate_forecast(res, horizons_in) called at `now`: its
\* status, the value returned and the caches after the call
Forecast(res, horizons_in) ==
    LET horizons == NormalizeHorizons(horizons_in)
        key == cache_key(res, horizons, now, loaded_at)
        path == ForecastPath(res, horizons_in)
        same == [status |-> "ok", value |-> NoValue, hit |-> FALSE,
                 cache |-> forecast_cache, hubs |-> hub_cells_cache,
                 corridors |-> corridor_cells_cache, key |-> key,
                 inserted |-> FALSE]
    IN CASE path = "ValueError" -> [same EXCEPT !.status = "ValueError"]
         [] path = "cached" ->
              [same EXCEPT !.value = forecast_cache[key], !.hit = TRUE]
         [] path = "KeyError" -> [same EXCEPT !.status = "KeyError"]
         [] path = "empty" ->
              [same EXCEPT !.value = EmptyPayload(res, horizons, now)]
         [] path = "computed" ->
              LET hubs == load_hubs(res)
                  corridors == load_corridor_cells(res)
                  payload == Payload(res, horizons, store[res].df, hubs,
                                     corridors, now)
              IN [same EXCEPT !.value = payload,
                              !.cache = CachePut(forecast_cache, key, payload),
                              !.hubs = Put(hub_cells_cache, res, hubs),
                              !.corridors = Put(corridor_cells_cache, res,
                                                corridors),
                              !.inserted = TRUE]

\* the outcome record of a forecast operation, with its history fields;
\* repeat: the caller made the same call before, in the same minute
ForecastRet(op, res, horizons_in, out, value, repeat) ==
    [op |-> op, status |-> out.status, res |-> res, horizons |-> horizons_in,
     minute |-> now \div TicksPerMinute, value |-> value, hit |-> out.hit,
     stale |-> out.hit /\ provenance[out.key].gen # gen[res],
     loaded |-> res \in DOMAIN store,
     from_df |-> IF out.hit THEN provenance[out.key].df
                 ELSE IF res \in DOMAIN store THEN store[res].df ELSE <<>>,
     repeat |-> repeat,
     same |-> repeat /\ value = ret.value]

\* the state change of a forecast outcome
ApplyForecast(res, out) ==
    /\ forecast_cache' = out.cache
    /\ hub_cells_cache' = out.hubs
    /\ corridor_cells_cache' = out.corridors
    /\ provenance' = IF out.inserted
                     THEN Put(provenance, out.key,
                              [df |-> store[res].df, gen |-> gen[res]])
                     ELSE provenance
    /\ UNCHANGED <<mode, calls, artifacts, now, store, loaded_at, pending, writes,
                   last_load, last_rows, before, origin, gen>>

\* the cache holds at most MaxCached results in a run
CacheRoom(res, horizons_in) ==
    ForecastPath(res, horizons_in) = "computed"
        => Cardinality(DOMAIN forecast_cache) < MaxCached

\* a call of generate_forecast(res, horizons_in)
CallForecast(res, horizons_in) ==
    /\ pending = <<>>
    /\ ret = Idle
    /\ LET out == Forecast(res, horizons_in)
       IN /\ ApplyForecast(res, out)
          /\ ret' = ForecastRet("generate_forecast", res, horizons_in, out,
                                out.value, FALSE)

\* the call in the runs that bound the cache
GenerateForecast(res, horizons_in) ==
    /\ ret = Idle
    /\ CacheRoom(res, horizons_in)
    /\ CallForecast(res, horizons_in)

\* the caller that holds a result calls generate_forecast again with the
\* same arguments; nothing else ran since its first call but the clock
RepeatForecast ==
    /\ pending = <<>>
    /\ ret.op = "generate_forecast"
    /\ ret.status = "ok"
    /\ CacheRoom(ret.res, ret.horizons)
    /\ LET out == Forecast(ret.res, ret.horizons)
       IN /\ ApplyForecast(ret.res, out)
          /\ ret' = ForecastRet("generate_forecast", ret.res, ret.horizons,
                                out, out.value,
                                ret.minute = now \div TicksPerMinute)

\* generate_forecast up to its cache lookup, for a caller that runs beside
\* others: the validation, the key at the time of the lookup, and the return
\* of a cached result
BeginForecast(w, res, horizons_in) ==
    /\ pending = <<>>
    /\ ret = Idle
    /\ calls[w].pc = "idle"
    /\ LET horizons == NormalizeHorizons(horizons_in)
           key == cache_key(res, horizons, now, loaded_at)
       IN calls' =
             [calls EXCEPT ![w] =
                 IF \E i \in 1..Len(horizons) : InvalidHorizon(horizons[i])
                 THEN [@ EXCEPT !.pc = "done", !.status = "ValueError"]
                 ELSE IF key \in DOMAIN forecast_cache
                 THEN [@ EXCEPT !.pc = "done", !.key = key, !.hit = TRUE,
                                !.value = forecast_cache[key],
                                !.from_df = provenance[key].df]
                 ELSE [@ EXCEPT !.pc = "missed", !.key = key]]
    /\ UNCHANGED <<mode, artifacts, now, store, loaded_at, forecast_cache,
                   hub_cells_cache, corridor_cells_cache, pending, ret, writes,
                   last_load, last_rows, before, origin, gen, provenance>>

\* generate_forecast after a cache miss: the lookup of the resolution, the
\* computation at the present time and the insertion under the key of the
\* lookup
EndForecast(w) ==
    /\ pending = <<>>
    /\ calls[w].pc = "missed"
    /\ LET res == calls[w].key[1]
           horizons == calls[w].key[2]
       IN IF res \notin DOMAIN store
          THEN /\ calls' = [calls EXCEPT ![w].pc = "done",
                                         ![w].status = "KeyError"]
               /\ UNCHANGED <<forecast_cache, hub_cells_cache,
                              corridor_cells_cache, provenance>>
          ELSE IF store[res].df = <<>>
          THEN /\ calls' = [calls EXCEPT
                               ![w].pc = "done",
                               ![w].value = EmptyPayload(res, horizons, now)]
               /\ UNCHANGED <<forecast_cache, hub_cells_cache,
                              corridor_cells_cache, provenance>>
          ELSE /\ calls' = [calls EXCEPT
                               ![w].pc = "done",
                               ![w].from_df = store[res].df,
                               ![w].value =
                                   Payload(res, horizons, store[res].df,
                                           load_hubs(res),
                                           load_corridor_cells(res), now)]
               /\ forecast_cache' =
                     CachePut(forecast_cache, calls[w].key,
                              Payload(res, horizons, store[res].df,
                                      load_hubs(res), load_corridor_cells(res),
                                      now))
               /\ hub_cells_cache' = Put(hub_cells_cache, res, load_hubs(res))
               /\ corridor_cells_cache' =
                     Put(corridor_cells_cache, res, load_corridor_cells(res))
               /\ provenance' = Put(provenance, calls[w].key,
                                    [df |-> store[res].df, gen |-> gen[res]])
    /\ UNCHANGED <<mode, artifacts, now, store, loaded_at, pending, ret,
                   writes, last_load, last_rows, before, origin, gen>>

\* the enrichment files are replaced on disk between two calls
ReplaceArtifacts ==
    /\ pending = <<>>
    /\ ret = Idle
    /\ artifacts' \in ArtifactStates \ {artifacts}
    /\ UNCHANGED <<mode, calls, now, store, loaded_at, forecast_cache,
                   hub_cells_cache, corridor_cells_cache, pending, ret, writes,
                   last_load, last_rows, before, origin, gen, provenance>>

\* the prediction loop on one enriched row of a table, at two horizons
PredictCell(df, hubs, corridors, i, h1, h2) ==
    /\ ret = Idle
    /\ ret' = [PlainRet("predict", "ok") EXCEPT
                  !.horizons = <<h1, h2>>,
                  !.from_df = df,
                  !.value =
                      [row |-> Enriched(df, Quantiles(df), hubs, corridors)[i],
                       preds |->
                           [h \in {h1, h2} |->
                               Predict(Enriched(df, Quantiles(df), hubs,
                                                corridors)[i],
                                       h, Quantiles(df))]]]
    /\ UNCHANGED <<mode, calls, artifacts, now, store, loaded_at, forecast_cache,
                   hub_cells_cache, corridor_cells_cache, pending, writes,
                   last_load, last_rows, before, origin, gen, provenance>>

(* ------------------------ forecast cells route ------------------------- *)
\* the cell without its enrichment fields
TrimCell(c) == [k \in DOMAIN c \ {"is_hub", "is_corridor", "decay"} |-> c[k]]

\* forecast_geojson: one feature per cell, the other payload fields as meta
forecast_geojson(payload, polygon) ==
    [type |-> "FeatureCollection",
     features |->
        [i \in 1..Len(payload.cells) |->
            [type |-> "Feature",
             geometry |-> <<IF polygon THEN "Polygon" ELSE "Point",
                            payload.cells[i].h3>>,
             properties |-> payload.cells[i]]],
     meta |-> [k \in DOMAIN payload \ {"cells"} |-> payload[k]]]

\* the response body built from the engine's payload
CellsResponse(payload, format, polygon, limit, incl_suppressed, incl_enrich) ==
    LET kept == IF incl_suppressed THEN payload.cells
                ELSE SelectSeq(payload.cells, LAMBDA c : ~c.suppressed)
        cut == IF limit # 0 THEN SubSeq(kept, 1, Min2(limit, Len(kept)))
               ELSE kept
        cells_to_emit == IF incl_enrich THEN cut
                         ELSE [i \in 1..Len(cut) |-> TrimCell(cut[i])]
        body == [k \in DOMAIN payload |->
                    IF k = "cells" THEN cells_to_emit ELSE payload[k]]
    IN IF format = "geojson" THEN forecast_geojson(body, polygon) ELSE body

\* a variant of the handler that filters, cuts and trims the cells of the
\* payload in place
payload_cut_in_place(payload, limit, incl_suppressed, incl_enrich) ==
    [payload EXCEPT
        !.cells = CellsResponse(payload, "json", TRUE, limit, incl_suppressed,
                                incl_enrich).cells]

\* the payload object that generate_forecast returned, after the handler
\* built its response: the handler filters, cuts and trims into new lists and
\* new records, and merges into a new dict
payload_after_route(payload, limit, incl_suppressed, incl_enrich) == payload

\* GET /heatmap/forecast/cells; limit 0 stands for no limit; the payload of a
\* computed or cached result is the object the cache holds
ForecastCells(res, horizon_list, format, polygon, limit, incl_sup, incl_enr) ==
    /\ pending = <<>>
    /\ ret = Idle
    /\ IF horizon_list = <<>>
       THEN /\ ret' = PlainRet("forecast_cells", "400 No horizons provided")
            /\ UNCHANGED <<mode, calls, artifacts, now, store, loaded_at,
                           forecast_cache, hub_cells_cache,
                           corridor_cells_cache, pending, writes,
                           last_load, last_rows, before, origin, gen, provenance>>
       ELSE IF res \notin DOMAIN store
       THEN /\ ret' = PlainRet("forecast_cells", "400 Unsupported resolution")
            /\ UNCHANGED <<mode, calls, artifacts, now, store, loaded_at,
                           forecast_cache, hub_cells_cache,
                           corridor_cells_cache, pending, writes,
                           last_load, last_rows, before, origin, gen, provenance>>
       ELSE LET out == Forecast(res, horizon_list)
                status == IF out.status = "ValueError"
                          THEN "400 Invalid horizon" ELSE out.status
                value == IF out.status = "ok"
                         THEN CellsResponse(out.value, format, polygon, limit,
                                            incl_sup, incl_enr)
                         ELSE NoValue
            IN /\ CacheRoom(res, horizon_list)
               /\ ApplyForecast(res,
                     IF out.status = "ok" /\ out.key \in DOMAIN out.cache
                     THEN [out EXCEPT
                              !.cache =
                                  Put(out.cache, out.key,
                                      payload_after_route(out.value, limit,
                                                          incl_sup, incl_enr))]
                     ELSE out)
               /\ ret' = ForecastRet("forecast_cells", res, horizon_list,
                                     [out EXCEPT !.status = status], value,
                                     FALSE)

(* --------------------------- specifications ---------------------------- *)
\* the precomputed artifacts of the runs: a three-cell table for the two
\* coarser resolutions, and a one-cell table for the middle resolution alone
FileKinds ==
    {<<{supported_resolutions[1], supported_resolutions[2]}, TableThree>>,
     <<{supported_resolutions[2]}, TableOne>>}
PrecomputedFiles ==
    {FileOf([r \in Resolutions |-> IF r \in k[1] THEN k[2] ELSE <<>>],
            supported_resolutions) : k \in FileKinds}

\* the horizon lists of the engine's requests in the runs with the clock
RequestHorizons == {<<60, 5>>}
\* a table without rows, registered through the repository
DirectTables == {<<>>}

\* horizon values around the two limits of the validation, and every list of
\* at most MaxHorizons of them
HorizonValues == {0 - 5, 0, 5, forecast_max_minutes, forecast_max_minutes + 1}
HorizonLists == UNION {[1..n -> HorizonValues] : n \in 0..MaxHorizons}

\* the requests of the cells route: the parsed horizon list and the query
\* parameters (limit 0: no limit given)
RouteHorizons == {<<>>, <<60, 5>>, <<0>>}
RouteLimits == {0, 1}
RouteFormats == {"json", "geojson"}

Load == \E pre \in PrecomputedFiles : LoadPrecomputed(pre)

LoadRawFile == \E file \in RawFiles : LoadRaw(file)

Register == \E res \in Resolutions, df \in DirectTables : SetResolution(res, df)

Engine ==
    \E res \in Resolutions, hz \in RequestHorizons : GenerateForecast(res, hz)

EngineAnyHorizons ==
    \E res \in Resolutions, hz \in HorizonLists : GenerateForecast(res, hz)

Route ==
    \E res \in Resolutions, hz \in RouteHorizons, format \in RouteFormats,
       polygon \in BOOLEAN, limit \in RouteLimits,
       include_suppressed \in BOOLEAN, include_enrichment \in BOOLEAN :
        ForecastCells(res, hz, format, polygon, limit, include_suppressed,
                      include_enrichment)

InitPrecomputed ==
    /\ Init
    /\ mode = "precomputed"
    /\ artifacts = GoodArtifacts

\* the store, the clock and the engine on a fixed horizon list
Next ==
    \/ Tick
    \/ Return
    \/ Load
    \/ RegisterRes
    \/ Register
    \/ Engine
    \/ RepeatForecast

Spec == InitPrecomputed /\ [][Next]_vars

\* the engine on every horizon list, over loaded and unloaded resolutions
NextHorizons ==
    \/ Return
    \/ Load
    \/ RegisterRes
    \/ EngineAnyHorizons

SpecHorizons == InitPrecomputed /\ [][NextHorizons]_vars

\* the cells route beside the engine
NextRoute ==
    \/ Return
    \/ Load
    \/ RegisterRes
    \/ Engine
    \/ Route

SpecRoute == InitPrecomputed /\ [][NextRoute]_vars

\* the raw path of the loader, without enrichment files
InitRaw ==
    /\ Init
    /\ mode = "raw"
    /\ artifacts = NoArtifacts

NextRaw ==
    \/ Tick
    \/ Return
    \/ LoadRawFile
    \/ RegisterRes
    \/ Engine

SpecRaw == InitRaw /\ [][NextRaw]_vars

\* the loader and the repository, on either ingestion path: the artifacts of
\* the other runs, one with the skewed table and one with an infinite count
\* at the middle resolution, every raw stream, direct registrations, lookups
\* of the supported resolutions and of another one, and the reload handler
LoaderFiles ==
    PrecomputedFiles
        \cup {FileOf([r \in Resolutions |-> TableSkewed], supported_resolutions),
              FileOf([r \in Resolutions |->
                         IF r = supported_resolutions[2] THEN TableInf
                         ELSE TableOne], supported_resolutions)}

LoadAnyFile == \E pre \in LoaderFiles : LoadPrecomputed(pre)

LookupResolutions == Resolutions \cup {supported_resolutions[1] - 1}

Lookup == \E res \in LookupResolutions : GetResolution(res)

InitLoader ==
    /\ Init
    /\ artifacts = NoArtifacts

NextLoader ==
    \/ Return
    \/ LoadAnyFile
    \/ LoadRawFile
    \/ RegisterRes
    \/ Register
    \/ Lookup
    \/ AdminReload

SpecLoader == InitLoader /\ [][NextLoader]_vars

\* the engine beside reloads and changes of the enrichment files, without the
\* clock: two horizon lists on the resolution that every artifact carries
EnrichHorizons == {<<5>>, <<60>>}

EngineEnrich ==
    \E hz \in EnrichHorizons : CallForecast(supported_resolutions[2], hz)

InitEnrich ==
    /\ Init
    /\ mode = "precomputed"

NextEnrich ==
    \/ Return
    \/ Load
    \/ RegisterRes
    \/ ReplaceArtifacts
    \/ EngineEnrich

SpecEnrich == InitEnrich /\ [][NextEnrich]_vars

\* the prediction of every row of the tables, under every choice of hubs and
\* corridors, at pairs of horizons around the end of the corridor boost
PredictHorizons == {1, 5, 29, 30, 31, 60, forecast_max_minutes}

Predictions ==
    \E df \in PrecomputedTables \cup {TableSkewed, TableFour},
       hubs \in SUBSET {"a", "b"},
       corridors \in SUBSET {"a", "c"}, h1 \in PredictHorizons,
       h2 \in PredictHorizons :
        /\ h1 < h2
        /\ \E i \in 1..Len(df) : PredictCell(df, hubs, corridors, i, h1, h2)

NextPredict ==
    \/ Return
    \/ Predictions

SpecPredict == InitPrecomputed /\ [][NextPredict]_vars

\* the result cache over reloads and the clock, the enrichment files fixed
NextCache ==
    \/ Tick
    \/ Return
    \/ Load
    \/ RegisterRes
    \/ EngineEnrich

SpecCache == InitPrecomputed /\ [][NextCache]_vars

\* the accumulation of every stream of at most MaxStream rows, in every row
\* order and every chunk size
NextChunks ==
    \/ Return
    \/ \E n \in 1..MaxStream :
          \E rows \in [1..n -> StreamPoints], order \in [1..n -> 1..n],
             chunksize \in 1..n :
              /\ \A i, j \in 1..n : order[i] = order[j] => i = j
              /\ AggregateRaw(rows, order, chunksize)

SpecChunks == InitRaw /\ [][NextChunks]_vars

\* two callers of generate_forecast with the same resolution and horizons,
\* in every interleaving of their steps with each other and with the clock
NextRace ==
    \/ Tick
    \/ Return
    \/ Load
    \/ RegisterRes
    \/ \E w \in Callers :
          BeginForecast(w, supported_resolutions[2], <<60, 5>>)
    \/ \E w \in Callers : EndForecast(w)

SpecRace == InitPrecomputed /\ [][NextRace]_vars

\* the result cache under the clock and two horizon lists that differ in
\* order and duplicates only, beside a list of another horizon set
KeyHorizons == {<<5, 60>>, <<60, 5, 60>>, <<5>>}

EngineKeys ==
    \E hz \in KeyHorizons : CallForecast(supported_resolutions[2], hz)

NextKeys ==
    \/ Tick
    \/ Return
    \/ Load
    \/ RegisterRes
    \/ EngineKeys

SpecKeys == InitPrecomputed /\ [][NextKeys]_vars

(* ------------------------------ properties ----------------------------- *)
\* C1: after a reload that replaced a resolution's table with different
\* data, a forecast for that resolution is recomputed from the new table: no
\* successful generate_forecast returns a result cached before the reload.
C1_ReloadRecomputes ==
    (ret.op = "generate_forecast" /\ ret.status = "ok") => ~ret.stale

C3_InvalidHorizonFails ==
    (/\ ret.op = "generate_forecast"
     /\ \E i \in 1..Len(ret.horizons) :
            ret.horizons[i] < 1 \/ ret.horizons[i] > forecast_max_minutes)
        => ret.status = "ValueError"

\* the error is returned for a list that mixes a valid and an invalid horizon
\* while the cache holds a result of the same resolution
C3_Witness ==
    /\ ret.op = "generate_forecast"
    /\ ret.status = "ValueError"
    /\ ret.horizons = <<5, forecast_max_minutes + 1>>
    /\ \E k \in DOMAIN forecast_cache : k[1] = ret.res /\ k[2] = <<5>>

\* C4: a forecast on an empty horizon list does not succeed, and no result
\* returned by the engine or held in its cache has an empty horizon list.
C4_EmptyHorizonsRejected ==
    /\ (ret.op = "generate_forecast" /\ ret.horizons = <<>>)
           => ret.status # "ok"
    /\ (ret.op = "generate_forecast" /\ ret.status = "ok")
           => ret.value.horizons_minutes # <<>>
    /\ \A k \in DOMAIN forecast_cache :
           forecast_cache[k].horizons_minutes # <<>>

\* C5: the horizons_minutes of a successful result is strictly ascending
\* (so without duplicates) and has the values of the input list, and every
\* cell record has predictions for exactly those horizons.
C5_HorizonsNormalized ==
    (ret.op = "generate_forecast" /\ ret.status = "ok") =>
        LET hz == ret.value.horizons_minutes
        IN /\ \A i \in 1..(Len(hz) - 1) : hz[i] < hz[i + 1]
           /\ Range(hz) = Range(ret.horizons)
           /\ \A i \in 1..Len(ret.value.cells) :
                  DOMAIN ret.value.cells[i].predictions
                      = {StrOf(h) : h \in Range(ret.horizons)}

\* a descending list is answered in ascending order, with cells
C5_Witness ==
    /\ ret.op = "generate_forecast"
    /\ ret.status = "ok"
    /\ ret.horizons = <<forecast_max_minutes, 5>>
    /\ ret.value.horizons_minutes = <<5, forecast_max_minutes>>
    /\ Len(ret.value.cells) = Len(TableThree)

\* C6: when a load over a store filled by loads alone has completed, every
\* resolution of the store maps to the table that load built.
C6_StoreIsLatestSnapshot ==
    (/\ ret.op = "load"
     /\ ret.status = "ok"
     /\ \A r \in DOMAIN store : origin[r].by = "load")
        => \A r \in DOMAIN store :
               r \in DOMAIN last_load /\ store[r].df = last_load[r]

\* C7: every cached result and every result returned by generate_forecast
\* has one cell record per row of the table it was computed from, in order,
\* each with a prediction for every requested horizon.
C7_NoPartialForecast ==
    /\ \A k \in DOMAIN forecast_cache :
           LET v == forecast_cache[k]
               df == provenance[k].df
           IN /\ Len(v.cells) = Len(df)
              /\ \A i \in 1..Len(df) :
                     /\ v.cells[i].h3 = df[i].h3
                     /\ DOMAIN v.cells[i].predictions
                            = {StrOf(h) : h \in Range(k[2])}
    /\ (ret.op = "generate_forecast" /\ ret.status = "ok") =>
           /\ Len(ret.value.cells) = Len(ret.from_df)
           /\ \A i \in 1..Len(ret.from_df) :
                  /\ ret.value.cells[i].h3 = ret.from_df[i].h3
                  /\ DOMAIN ret.value.cells[i].predictions
                         = {StrOf(h) : h \in Range(ret.horizons)}

\* a computed three-cell result is returned and is in the cache
C7_Witness ==
    /\ ret.op = "generate_forecast"
    /\ ret.status = "ok"
    /\ ~ret.hit
    /\ ret.from_df = TableThree
    /\ \E k \in DOMAIN forecast_cache : forecast_cache[k] = ret.value

C9_SuppressedIffBelowK ==
    /\ \A k \in DOMAIN forecast_cache :
           \A i \in 1..Len(forecast_cache[k].cells) :
               LET c == forecast_cache[k].cells[i]
                   row == provenance[k].df[i]
               IN /\ c.h3 = row.h3
                  /\ c.suppressed <=> (\/ row.point_count < suppress_k
                                       \/ row.unique_trips < suppress_k)
    /\ (ret.op = "generate_forecast" /\ ret.status = "ok") =>
           \A i \in 1..Len(ret.value.cells) :
               LET c == ret.value.cells[i]
                   row == ret.from_df[i]
               IN /\ c.h3 = row.h3
                  /\ c.suppressed <=> (\/ row.point_count < suppress_k
                                       \/ row.unique_trips < suppress_k)

\* of the counts 10, 50 and 100 only the cell of count 10 is suppressed
C9_Witness ==
    /\ ret.op = "generate_forecast"
    /\ ret.status = "ok"
    /\ ret.from_df = TableThree
    /\ Len(ret.value.cells) = 3
    /\ [i \in 1..3 |-> ret.value.cells[i].current_count] = <<10, 50, 100>>
    /\ [i \in 1..3 |-> ret.value.cells[i].suppressed] = <<TRUE, FALSE, FALSE>>

\* C10: no response of the engine or of the cells route carries, in the
\* record of a suppressed cell, the point count or the unique trip count of
\* the cell's row.
C10_SuppressedCountsHidden ==
    (ret.op \in {"generate_forecast", "forecast_cells"} /\ ret.status = "ok")
        => LET emitted == IF "features" \in DOMAIN ret.value
                          THEN {ret.value.features[i].properties :
                                   i \in 1..Len(ret.value.features)}
                          ELSE Range(ret.value.cells)
           IN \A c \in emitted : \A j \in 1..Len(ret.from_df) :
                  (c.suppressed /\ ret.from_df[j].h3 = c.h3) =>
                      /\ c.current_count # ret.from_df[j].point_count
                      /\ c.unique_trips # ret.from_df[j].unique_trips

\* C11: after any loads and reloads through either ingestion path, every
\* cell aggregate in the store has unique_trips <= point_count.
C11_UniqueTripsAtMostPoints ==
    \A res \in DOMAIN store : \A i \in 1..Len(store[res].df) :
        store[res].df[i].unique_trips <= store[res].df[i].point_count

\* C12: for every resolution in the store the per-cell point counts sum to
\* total_points, and after a completed load on the raw path that sum is the
\* number of input rows that have randomized_id, lat and lng all present.
C12_PointCountsSumToRows ==
    /\ \A res \in DOMAIN store :
          SumSeq([i \in 1..Len(store[res].df) |->
                     store[res].df[i].point_count]) = store[res].total_points
    /\ (mode = "raw" /\ ret.op = "load" /\ ret.status = "ok")
         => /\ DOMAIN store = Resolutions
            /\ \A res \in DOMAIN store :
                  store[res].total_points = last_rows.complete

\* a completed raw load whose input had an incomplete row beside complete ones
C12_Witness ==
    /\ mode = "raw"
    /\ ret.op = "load"
    /\ ret.status = "ok"
    /\ last_rows.complete >= 1
    /\ last_rows.complete < last_rows.rows
    /\ \A res \in Resolutions :
          res \in DOMAIN store /\ store[res].total_points = last_rows.complete

\* C13: a raw stream that has the columns randomized_id, lat and lng is
\* accepted whether or not alt, spd and azm are present: a load ends with the
\* schema error only when one of those three columns is missing.
C13_ThreeColumnsSuffice ==
    (ret.op = "load" /\ ret.status = "ValueError")
        => ret.value.missing \cap {"randomized_id", "lat", "lng"} # {}

\* C14: get_resolution(res) fails with the not-found error exactly when res
\* was never registered; otherwise it returns the aggregate of the table most
\* recently registered for res; in both cases the store is left unchanged.
C14_GetResolution ==
    /\ [](ret.op = "get_resolution" =>
            /\ ret.status = "KeyError" <=> ret.res \notin DOMAIN origin
            /\ ret.status = "ok" =>
                  ret.value = ResolutionAggregate(ret.res, origin[ret.res].df))
    /\ [][ret'.op = "get_resolution"
             => store' = store /\ loaded_at' = loaded_at]_vars

\* a lookup returns the table of a reload that replaced an earlier one
C14_Witness ==
    /\ ret.op = "get_resolution"
    /\ ret.status = "ok"
    /\ gen[ret.res] >= 1
    /\ ret.value.df = origin[ret.res].df

\* the stop clusters cannot be loaded: the file or a column is missing
HubsUnloadable ==
    \/ ~artifacts.stop_clusters.readable
    \/ ~(StopClusterColumns \subseteq artifacts.stop_clusters.columns)

\* the corridors cannot be loaded: one of the two files or one of the columns
\* read from them is missing
CorridorsUnloadable ==
    \/ ~artifacts.od_top.readable
    \/ ~(OdTopColumns \subseteq artifacts.od_top.columns)
    \/ ~artifacts.stop_clusters.readable
    \/ ~({"cluster_id", "lat_mean", "lng_mean"}
            \subseteq artifacts.stop_clusters.columns)

\* a row of the stop clusters holds a centroid that does not parse
BadStopCluster ==
    \E i \in 1..Len(artifacts.stop_clusters.rows) :
        artifacts.stop_clusters.rows[i].latlng = Bad

\* the cells of a result that carry the flag is_hub, or is_corridor
Flagged(value, flag) ==
    {value.cells[i].h3 :
        i \in {j \in 1..Len(value.cells) : value.cells[j][flag]}}

C16_EnrichmentComputedOnce ==
    [][/\ \A res \in DOMAIN hub_cells_cache :
            /\ res \in DOMAIN hub_cells_cache'
            /\ hub_cells_cache'[res] = hub_cells_cache[res]
       /\ \A res \in DOMAIN corridor_cells_cache :
            /\ res \in DOMAIN corridor_cells_cache'
            /\ corridor_cells_cache'[res] = corridor_cells_cache[res]
       /\ (forecast_cache' # forecast_cache
              /\ ret'.res \in DOMAIN hub_cells_cache
              /\ ret'.res \in DOMAIN corridor_cells_cache)
            => /\ Flagged(ret'.value, "is_hub")
                     = hub_cells_cache[ret'.res]
                         \cap {ret'.value.cells[i].h3 :
                                  i \in 1..Len(ret'.value.cells)}
               /\ Flagged(ret'.value, "is_corridor")
                     = corridor_cells_cache[ret'.res]
                         \cap {ret'.value.cells[i].h3 :
                                  i \in 1..Len(ret'.value.cells)}]_vars

\* a forecast computed after a reload replaced the table, with the files
\* readable at the call, still carries the empty sets cached by an earlier
\* forecast whose load had failed
C16_Witness ==
    /\ ret.op = "generate_forecast"
    /\ ret.status = "ok"
    /\ ~ret.hit
    /\ ret.value.cells # <<>>
    /\ \E key \in DOMAIN provenance :
          key[1] = ret.res /\ provenance[key].df # ret.from_df
    /\ hub_cells_cache[ret.res] = {}
    /\ corridor_cells_cache[ret.res] = {}
    /\ read_hubs(ret.res) # {}
    /\ read_corridor_cells(ret.res) # {}
    /\ Flagged(ret.value, "is_hub") = {}
    /\ Flagged(ret.value, "is_corridor") = {}

C18_PredictionDecays ==
    ret.op = "predict" =>
        LET row == ret.value.row
            preds == ret.value.preds
            baseline(h) ==
                (row.smoothed * ExpNeg(row.decay * h, 60000)) \div ExpScale
        IN /\ forecast_decay_per_hour > 0
           /\ preds[ret.horizons[2]].predicted
                 <= preds[ret.horizons[1]].predicted
           /\ \A h \in DOMAIN preds :
                 /\ ~row.is_corridor => preds[h].predicted = baseline(h)
                 /\ row.is_corridor =>
                       /\ preds[h].predicted >= baseline(h)
                       /\ h > corridor_tau_minutes
                            => preds[h].predicted = baseline(h)

\* a corridor cell at 30 and 31 minutes: boosted at 30, at the baseline and
\* lower at 31
C18_Witness ==
    /\ ret.op = "predict"
    /\ ret.value.row.is_corridor
    /\ ret.horizons = <<corridor_tau_minutes, corridor_tau_minutes + 1>>
    /\ ret.value.preds[30].predicted
         > (ret.value.row.smoothed * ExpNeg(ret.value.row.decay * 30, 60000))
              \div ExpScale
    /\ ret.value.preds[31].predicted
         = (ret.value.row.smoothed * ExpNeg(ret.value.row.decay * 31, 60000))
              \div ExpScale
    /\ ret.value.preds[31].predicted < ret.value.preds[30].predicted

C20_FailedReloadKeepsPartial ==
    (ret.op = "admin_reload" /\ ret.value.detail # "AttributeError") =>
        /\ ret.status = "HTTP 500"
        /\ pending = <<>>
        /\ \A r \in DOMAIN last_load :
              r < ret.res =>
                  r \in DOMAIN store /\ store[r].df = last_load[r]
        /\ \A r \in Resolutions :
              (r >= ret.res \/ r \notin DOMAIN last_load) =>
                  /\ r \in DOMAIN store <=> r \in DOMAIN before
                  /\ r \in DOMAIN store => store[r] = before[r]

\* a reload failed at the middle resolution: the first resolution holds its
\* new table, the two others the different tables of before
C20_Witness ==
    /\ ret.op = "admin_reload"
    /\ ret.status = "HTTP 500"
    /\ ret.value.detail = "OverflowError"
    /\ ret.res = supported_resolutions[2]
    /\ DOMAIN before = Resolutions
    /\ store[supported_resolutions[1]].df = last_load[supported_resolutions[1]]
    /\ before[supported_resolutions[1]].df # last_load[supported_resolutions[1]]
    /\ \A r \in {supported_resolutions[2], supported_resolutions[3]} :
          store[r] = before[r] /\ store[r].df # last_load[r]

\* C22: for a table of a single cell the density quantiles reported by the
\* forecast all equal that cell's point_count, and the cell's decay is the
\* base rate times 0.4 (0.06 for the base rate 0.15).
C22_SingleCellQuantiles ==
    (/\ ret.op = "generate_forecast"
     /\ ret.status = "ok"
     /\ Len(ret.from_df) = 1)
        => /\ ret.value.quantiles =
                  [q50 |-> 100 * ret.from_df[1].point_count,
                   q80 |-> 100 * ret.from_df[1].point_count,
                   q95 |-> 100 * ret.from_df[1].point_count]
           /\ ret.value.cells[1].decay = (forecast_decay_per_hour * 4) \div 10

\* C23: each cell's decay is the base rate times the one multiplier of its
\* tier (0.4 from q95 up, 0.7 in [q80, q95), 1.0 in [q50, q80), 1.3 below
\* q50); exactly one tier holds, and a hub cell's decay is the smaller of its
\* tier value and half the base rate.
C23_DecayTiers ==
    ret.op = "predict" =>
        LET q == Quantiles(ret.from_df)
            pc == 100 * ret.value.row.point_count
            base == forecast_decay_per_hour
            tiers == <<[holds |-> pc >= q.q95, d |-> (base * 4) \div 10],
                       [holds |-> q.q80 <= pc /\ pc < q.q95,
                        d |-> (base * 7) \div 10],
                       [holds |-> q.q50 <= pc /\ pc < q.q80, d |-> base],
                       [holds |-> pc < q.q50, d |-> (base * 13) \div 10]>>
        IN /\ Cardinality({i \in 1..4 : tiers[i].holds}) = 1
           /\ \A i \in 1..4 :
                 tiers[i].holds =>
                    ret.value.row.decay =
                        IF ret.value.row.is_hub
                        THEN Min2(tiers[i].d, (base * 5) \div 10)
                        ELSE tiers[i].d
           /\ ret.value.row.is_hub => 10 * ret.value.row.decay <= 5 * base

\* a hub cell of the lowest tier of the four-cell table, clamped to half the
\* base rate
C23_Witness ==
    /\ ret.op = "predict"
    /\ ret.from_df = TableFour
    /\ ret.value.row.is_hub
    /\ 100 * ret.value.row.point_count < Quantiles(ret.from_df).q50
    /\ ret.value.row.decay = (forecast_decay_per_hour * 5) \div 10

\* C24: for every cell and horizon the interval is centred on predicted with
\* half_width = 1.96 * sqrt(predicted) * scale (0.8 from q95 up, 1.3 below
\* q50, 1.0 otherwise), lower = max(0, predicted - half_width) and
\* upper = predicted + half_width, for small predictions too, and
\* 0 <= lower <= predicted <= upper.
C24_IntervalHalfWidth ==
    ret.op = "predict" =>
        \A h \in DOMAIN ret.value.preds :
            LET p == ret.value.preds[h]
                q == Quantiles(ret.from_df)
                pc == 100 * ret.value.row.point_count
                scale == IF pc >= q.q95 THEN 8
                         ELSE IF pc < q.q50 THEN 13 ELSE 10
                half_width ==
                    (2 * ((196 * SqrtMilli(p.predicted)) \div 100) * scale)
                        \div 20
            IN /\ p.lower = Max2(0, p.predicted - half_width)
               /\ p.upper = p.predicted + half_width
               /\ 0 <= p.lower /\ p.lower <= p.predicted
               /\ p.predicted <= p.upper

\* C25: for every horizon the demand-index denominator is
\* 0.5 * max(M, 1.0) + 0.5 * max(P, 1.0), M the maximum and P the 95th
\* percentile of predicted over the cells, so that every cell's demand_index
\* is at most its predicted value, also when M or P lies between 0 and 1.
C25_DemandDenominator ==
    (/\ ret.op = "generate_forecast"
     /\ ret.status = "ok"
     /\ ret.value.cells # <<>>)
        => \A i \in 1..Len(ret.value.horizons_minutes) :
              LET k == StrOf(ret.value.horizons_minutes[i])
                  cells == ret.value.cells
                  vals == SortedList([c \in 1..Len(cells) |->
                                         cells[c].predictions[k].predicted])
                  M == vals[Len(vals)]
                  P == vals[Max2(0, (95 * (Len(vals) - 1)) \div 100) + 1]
                  denom == (Max2(M, 1000) + Max2(P, 1000)) \div 2
              IN \A c \in 1..Len(cells) :
                    /\ cells[c].predictions[k].demand_index =
                          (cells[c].predictions[k].predicted * 10000)
                              \div denom
                    /\ cells[c].predictions[k].demand_index
                          <= 10 * cells[c].predictions[k].predicted

\* C26: a generate_forecast call that fails (a horizon out of range, or a
\* resolution that is not loaded) leaves the forecast cache, the hub and
\* corridor caches and the aggregate store as they were before the call.
C26_FailedCallChangesNothing ==
    [][(/\ ret = Idle
        /\ ret'.op = "generate_forecast"
        /\ ret'.status # "ok")
          => /\ forecast_cache' = forecast_cache
             /\ hub_cells_cache' = hub_cells_cache
             /\ corridor_cells_cache' = corridor_cells_cache
             /\ store' = store
             /\ loaded_at' = loaded_at]_vars

\* a call on a resolution that is not loaded has failed while the caches and
\* the store held entries
C26_Witness ==
    /\ ret.op = "generate_forecast"
    /\ ret.status = "KeyError"
    /\ forecast_cache # EmptyMap
    /\ hub_cells_cache # EmptyMap
    /\ corridor_cells_cache # EmptyMap
    /\ store # EmptyMap

\* C29: the administrative reload reports the outcome of the load: after a
\* load that completed (every table it produced is in the store) it answers
\* "reloaded", and it answers "Reload failed" only when the load did not
\* replace the store's tables.
C29_ReloadReportsOutcome ==
    ret.op = "admin_reload" =>
        LET completed ==
                /\ last_load # EmptyMap
                /\ \A r \in DOMAIN last_load :
                      r \in DOMAIN store /\ store[r].df = last_load[r]
        IN /\ completed => ret.status = "reloaded"
           /\ ret.status = "HTTP 500" => ~completed

\* C27: the value returned on a cache hit was computed for the resolution,
\* the deduplicated sorted horizon set and the UTC minute of the current
\* call, so a result of one minute is never served in a later minute; and
\* calls whose horizon lists differ only in order or duplicates share one
\* cache entry.
C27_HitSameKey ==
    /\ (ret.op = "generate_forecast" /\ ret.status = "ok" /\ ret.hit)
          => /\ ret.value.res = ret.res
             /\ ret.value.horizons_minutes = SortedSeq(Range(ret.horizons))
             /\ ret.value.generated_at \div TicksPerMinute = ret.minute
    /\ \A k1, k2 \in DOMAIN forecast_cache :
          (/\ k1[1] = k2[1]
           /\ Range(k1[2]) = Range(k2[2])
           /\ k1[3] = k2[3]
           /\ k1[4] = k2[4])
              => k1 = k2

\* in the second minute a list with a duplicate, out of order, is answered
\* from the cache, which still holds the first minute's result for the same
\* horizon set
C27_Witness ==
    /\ ret.op = "generate_forecast"
    /\ ret.status = "ok"
    /\ ret.hit
    /\ ret.horizons = <<60, 5, 60>>
    /\ ret.minute = 1
    /\ \E k \in DOMAIN forecast_cache :
          /\ k[2] = <<5, 60>>
          /\ k[3] = 0
          /\ forecast_cache[k] # ret.value

C30_ChunkingIndependent ==
    ret.op = "aggregate" =>
        \A r \in Resolutions :
            /\ DOMAIN ret.value.chunked[r] = DOMAIN ret.value.one_pass[r]
            /\ \A c \in DOMAIN ret.value.chunked[r] :
                  /\ ret.value.chunked[r][c].points
                        = ret.value.one_pass[r][c].points
                  /\ Cardinality(ret.value.chunked[r][c].ids)
                        = Cardinality(ret.value.one_pass[r][c].ids)
            /\ LET cells == <<"a", "b", "c", "d">>
               IN SumSeq([i \in 1..Len(cells) |->
                             IF cells[i] \in DOMAIN ret.value.chunked[r]
                             THEN ret.value.chunked[r][cells[i]].points
                             ELSE 0])
                      = ret.value.retained

====
